---------------------------- MODULE Spec2Model ----------------------------
(***************************************************************************)
(* AR voxel builder (App component): pinch detection with a falling-edge   *)
(* trigger, screen-to-lattice projection, and the store of placed cubes.   *)
(*                                                                         *)
(* Numbers.  Landmark coordinates are fixed-point integers, Unit to 1.0,   *)
(* so PINCH_THRESHOLD = 0.045 is 9 units.  Distances are compared through  *)
(* their squares and Math.round(BUILD_DISTANCE * v / |v|) is decided by    *)
(* exact integer comparisons against sqrt(|v|^2); tan(fov/2) = tan(35 deg) *)
(* is taken as TanNum/TanDen.  A lattice position is a triple of integers. *)
(***************************************************************************)
EXTENDS Integers, Sequences, FiniteSets, TLC

VARIABLES
    placedCubes,     \* placedCubesRef.current: positions of the placed cubes, in push order
    blockCount,      \* React state blockCount
    lastPinchState,  \* lastPinchStateRef.current
    previewVisible,  \* previewCubeRef.current.visible
    previewPos,      \* previewCubeRef.current.position
    aspect,          \* camera.aspect as <<width, height>>
    \* ---- history of the run (observers, written but never read by the program)
    lastOp,          \* "init" | "frame" | "throw" | "clear" | "resize" | "render"
    cur,             \* the results object of the last processed frame, or NoFrame
    fired,           \* the last step was a frame that called placeBlock
    placeArg,        \* the position handed to placeBlock in that call
    placed,          \* that call of placeBlock ran to its end (pushed a cube)
    added,           \* Len(placedCubes) after the last step minus before it
    successes,       \* pushes since the last emptying of the store
    loss,            \* tracking lost: "no" | "midpinch" | "idle"
    recovered,       \* value of loss just before the last hand frame
    run,             \* the current run of pinching frames at one position
    rel,             \* the run closed by the last frame, if that frame was a release
    visibleAtPlace,  \* previewCubeRef.current.visible at the moment of that call of placeBlock
    clearMid,        \* a clear fell into the pinch: "no" | "pending" | "released"
    bench            \* the last application of a pure function to a drawn input

vars == <<placedCubes, blockCount, lastPinchState, previewVisible, previewPos,
          aspect, lastOp, cur, fired, placeArg, placed, added, successes,
          loss, recovered, run, rel, visibleAtPlace, clearMid, bench>>

prog == <<placedCubes, blockCount, lastPinchState, previewVisible, previewPos, aspect>>

-----------------------------------------------------------------------------
(* Bounds *)

MaxBlocks == 3   \* frames that would store more cubes than this are not explored
MaxRun == 2      \* the run-length observer saturates here
MaxCoord == 3    \* world points are drawn with components in -MaxCoord..MaxCoord

-----------------------------------------------------------------------------
(* Program constants *)

Unit == 200              \* fixed-point scale of a Landmark coordinate: 200 units = 1.0
GRID_SIZE == 1
PINCH_THRESHOLD == 9     \* 0.045 * Unit
BUILD_DISTANCE == 6
TanNum == 7              \* tan(70 deg / 2) ~ 7/10
TanDen == 10

SceneReady == TRUE       \* sceneRef.current is set by the mount effect and never unset
CameraReady == TRUE      \* cameraRef.current, likewise
PreviewReady == TRUE     \* previewCubeRef.current, likewise

Origin == <<0, 0, 0>>    \* new THREE.Vector3()

Viewports == {<<1, 1>>, <<2, 1>>}   \* window.innerWidth : window.innerHeight

-----------------------------------------------------------------------------
(* Inputs: the results objects the hand tracker delivers *)

Landmark(x, y, z) == [x |-> x, y |-> y, z |-> z]

Hand(thumbTip, indexTip) == (4 :> thumbTip) @@ (8 :> indexTip)

\* thumb tip at the screen centre, right of it, and above it
ThumbTips == {Landmark(Unit \div 2, Unit \div 2, 0),
              Landmark(3 * (Unit \div 4), Unit \div 2, 0),
              Landmark(Unit \div 2, Unit \div 4, 0)}

\* index tip relative to thumb tip; distances 4, 6, 10 and 9 units
\* (0.02, 0.03, 0.05 and, with a depth component, exactly 0.045)
Offsets == {<<4, 0, 0>>, <<6, 0, 0>>, <<10, 0, 0>>, <<1, 4, 8>>}

Hands == {Hand(t, Landmark(t.x + o[1], t.y + o[2], t.z + o[3])) : t \in ThumbTips, o \in Offsets}

NoHands == [multiHandLandmarks |-> <<>>]

HandResults == {NoHands} \cup {[multiHandLandmarks |-> <<h>>] : h \in Hands}

NoFrame == [multiHandLandmarks |-> <<>>, none |-> TRUE]

\* results objects the HandResults type does not allow: the landmark list missing
\* (the property undefined), and a hand entry without landmark 4, without
\* landmark 8, without any landmark
MissingList == [multiHandLandmarks |-> <<>>, missing |-> TRUE]

MalformedResults ==
    {MissingList,
     [multiHandLandmarks |-> <<(8 :> Landmark(Unit \div 2, Unit \div 2, 0))>>],
     [multiHandLandmarks |-> <<(4 :> Landmark(Unit \div 2, Unit \div 2, 0))>>],
     [multiHandLandmarks |-> <<[i \in {} |-> Landmark(0, 0, 0)]>>]}

-----------------------------------------------------------------------------
(* Pure functions *)

Sq(n) == n * n

\* variant: the boundary counted as a pinch (dist <= PINCH_THRESHOLD)
isPinchingInclusive(thumbTip, indexTip) ==
    Sq(thumbTip.x - indexTip.x) + Sq(thumbTip.y - indexTip.y) + Sq(thumbTip.z - indexTip.z)
        <= Sq(PINCH_THRESHOLD)

\* dist < PINCH_THRESHOLD, with dist = sqrt(dx^2 + dy^2 + dz^2): both sides are
\* non-negative, so the comparison is the comparison of the squares
isPinchingOf(thumbTip, indexTip) ==
    Sq(thumbTip.x - indexTip.x) + Sq(thumbTip.y - indexTip.y) + Sq(thumbTip.z - indexTip.z)
        < Sq(PINCH_THRESHOLD)

\* a * sqrt(S) <= b, for integers a, b and S > 0
LeSqrt(a, b, S) ==
    IF a > 0
      THEN b >= 0 /\ S <= Sq(b) \div Sq(a)
      ELSE \/ b >= 0
           \/ a < 0 /\ S >= (Sq(b) + Sq(a) - 1) \div Sq(a)

\* m - 1/2 <= u < m + 1/2 for u = t / GRID_SIZE, t = BUILD_DISTANCE * c / sqrt(S):
\* Math.round(u) is the one integer m for which this holds
RoundsTo(m, c, S) ==
    /\ LeSqrt((2 * m - 1) * GRID_SIZE, 2 * BUILD_DISTANCE * c, S)
    /\ ~LeSqrt((2 * m + 1) * GRID_SIZE, 2 * BUILD_DISTANCE * c, S)

\* the integers Math.round can return for |t| <= BUILD_DISTANCE + 1
RoundRange == -(BUILD_DISTANCE \div GRID_SIZE + 1)..(BUILD_DISTANCE \div GRID_SIZE + 1)

\* variant: the half cell is added before rounding, Math.round(u + 0.5)
SnapComponentOffsetTwice(c, S) ==
    (CHOOSE m \in RoundRange :
        /\ LeSqrt((2 * m - 2) * GRID_SIZE, 2 * BUILD_DISTANCE * c, S)
        /\ ~LeSqrt(2 * m * GRID_SIZE, 2 * BUILD_DISTANCE * c, S)) * GRID_SIZE

\* variant: halves rounded away from zero, Math.sign(u) * Math.round(Math.abs(u))
SnapComponentHalfAway(c, S) ==
    (CHOOSE m \in RoundRange :
        IF c >= 0 THEN RoundsTo(m, c, S) ELSE RoundsTo(-m, -c, S)) * GRID_SIZE

\* Math.round(t / GRID_SIZE) * GRID_SIZE
SnapComponent(c, S) ==
    (CHOOSE m \in RoundRange : RoundsTo(m, c, S)) * GRID_SIZE

\* variant: x * (2 - 1), the shift to the centre lost
ndcXOfNoShift(x2) == x2 \div 2

\* ndcX = (x * 2) - 1 for x = x2 / (2 * Unit), in units of 1/Unit
ndcXOf(x2) == x2 - Unit

\* ndcY = -(y * 2) + 1 for y = y2 / (2 * Unit), in units of 1/Unit
ndcYOf(y2) == Unit - y2

\* the ray from the camera through the unprojected point (ndcX, ndcY, 0.5) has
\* direction (ndcX * tan * aspect, ndcY * tan, -1), scaled here by
\* Unit * TanDen * height; targetPos is BUILD_DISTANCE * v / |v|
Direction(x2, y2, asp) ==
    <<ndcXOf(x2) * TanNum * asp[1], ndcYOf(y2) * TanNum * asp[2], -(Unit * TanDen * asp[2])>>

\* x2, y2 are twice the midpoint's coordinates
getSnappedWorldPosition(x2, y2, asp) ==
    IF ~CameraReady THEN Origin
    ELSE
      LET v == Direction(x2, y2, asp)
          S == Sq(v[1]) + Sq(v[2]) + Sq(v[3])
      IN  <<SnapComponent(v[1], S), SnapComponent(v[2], S), SnapComponent(v[3], S)>>

\* getSnappedWorldPosition(midpointX, midpointY) of lines 174-177 for every hand the
\* tracker delivers and every camera aspect, computed once
snappedPosOf ==
    [h \in Hands, asp \in Viewports |->
        getSnappedWorldPosition(h[4].x + h[8].x, h[4].y + h[8].y, asp)]

\* variant: level trigger, every non-pinching frame counts as a release
justReleasedAnyOpen(last, isPinching) == ~isPinching

\* variant: rising edge, the placement happens when the pinch starts
justReleasedOnPress(last, isPinching) == ~last /\ isPinching

\* the release test of line 185: lastPinchStateRef.current && !isPinching
justReleased(last, isPinching) == last /\ ~isPinching

\* variant: no overlap check
placeBlockNoOverlapCheck(cubes, count, position) ==
    IF ~SceneReady THEN [cubes |-> cubes, count |-> count, placed |-> FALSE]
    ELSE [cubes |-> Append(cubes, position), count |-> count + 1, placed |-> TRUE]

\* variant: the count is raised before the overlap check
placeBlockCountsDuplicate(cubes, count, position) ==
    IF ~SceneReady THEN [cubes |-> cubes, count |-> count, placed |-> FALSE]
    ELSE IF \E i \in 1..Len(cubes) : cubes[i] = position
      THEN [cubes |-> cubes, count |-> count + 1, placed |-> FALSE]
      ELSE [cubes |-> Append(cubes, position), count |-> count + 1, placed |-> TRUE]

\* the store and the count after placeBlock(position)
placeBlock(cubes, count, position) ==
    IF ~SceneReady THEN [cubes |-> cubes, count |-> count, placed |-> FALSE]
    ELSE IF \E i \in 1..Len(cubes) : cubes[i] = position
      THEN [cubes |-> cubes, count |-> count, placed |-> FALSE]
      ELSE [cubes |-> Append(cubes, position), count |-> count + 1, placed |-> TRUE]

-----------------------------------------------------------------------------
(* Observers *)

NoRun == [len |-> 0, pos |-> Origin, added |-> 0]
NoRel == [n |-> 0, free |-> FALSE, total |-> 0, final |-> 0]
NoBench == [kind |-> "none"]

Min(a, b) == IF a < b THEN a ELSE b

Range(s) == {s[i] : i \in 1..Len(s)}

-----------------------------------------------------------------------------
Init ==
    /\ placedCubes = <<>>
    /\ blockCount = 0
    /\ lastPinchState = FALSE
    /\ previewVisible = FALSE
    /\ previewPos = Origin
    /\ aspect \in Viewports
    /\ lastOp = "init"
    /\ cur = NoFrame
    /\ fired = FALSE
    /\ placeArg = Origin
    /\ placed = FALSE
    /\ added = 0
    /\ successes = 0
    /\ loss = "no"
    /\ recovered = "no"
    /\ run = NoRun
    /\ rel = NoRel
    /\ visibleAtPlace = FALSE
    /\ clearMid = "no"
    /\ bench = NoBench

\* variant: the cube goes where the preview stood before this frame
placeTargetLastPreview(snappedPos, previewBefore) == previewBefore

\* the argument of placeBlock at line 186: this frame's snappedPos
placeTarget(snappedPos, previewBefore) == snappedPos

\* variant: placeBlock called first, the preview updated after it
previewAtCallPlaceFirst(before, isPinching) == before

\* the preview's visibility when line 186 runs: lines 179-182 have run by then
previewAtCall(before, isPinching) == IF PreviewReady THEN isPinching ELSE before

\* the hand branch of the callback, lines 163-189, for one frame's values
HandFrame(results, isPinching, snappedPos, release, target, res) ==
    LET addedNow == Len(res.cubes) - Len(placedCubes)
        sameRun == run.len >= 1 /\ run.pos = snappedPos
    IN
        /\ Len(res.cubes) <= MaxBlocks
        /\ previewPos' = IF PreviewReady THEN snappedPos ELSE previewPos
        /\ previewVisible' = IF PreviewReady THEN isPinching ELSE previewVisible
        /\ placedCubes' = res.cubes
        /\ blockCount' = res.count
        /\ lastPinchState' = isPinching
        /\ aspect' = aspect
        /\ lastOp' = "frame"
        /\ cur' = results
        /\ fired' = release
        /\ placeArg' = IF release THEN target ELSE Origin
        /\ placed' = res.placed
        /\ added' = addedNow
        /\ successes' = IF res.placed THEN successes + 1 ELSE successes
        /\ loss' = "no"
        /\ recovered' = loss
        /\ run' = IF isPinching
                    THEN IF sameRun
                           THEN [len |-> Min(run.len + 1, MaxRun), pos |-> snappedPos,
                                 added |-> run.added + addedNow]
                           ELSE [len |-> 1, pos |-> snappedPos, added |-> addedNow]
                    ELSE NoRun
        /\ rel' = IF ~isPinching /\ sameRun
                    THEN [n |-> run.len, free |-> snappedPos \notin Range(placedCubes),
                          total |-> run.added + addedNow, final |-> addedNow]
                    ELSE NoRel
        /\ visibleAtPlace' = (release /\ previewAtCall(previewVisible, isPinching))
        /\ clearMid' = IF clearMid = "pending"
                          THEN IF isPinching THEN "pending" ELSE "released"
                          ELSE "no"
        /\ bench' = bench

\* what the observers record of a frame without a hand
NoHandObserved(results) ==
    /\ lastOp' = "frame"
    /\ cur' = results
    /\ fired' = FALSE
    /\ placeArg' = Origin
    /\ placed' = FALSE
    /\ added' = Len(placedCubes') - Len(placedCubes)
    /\ successes' = successes
    /\ loss' = IF loss = "midpinch" \/ run.len >= 1 THEN "midpinch" ELSE "idle"
    /\ recovered' = "no"
    /\ run' = NoRun
    /\ rel' = NoRel
    /\ visibleAtPlace' = FALSE
    /\ clearMid' = "no"
    /\ bench' = bench

\* variant: the pinch memory survives the loss of the hand
NoHandFrameKeepsPinch(results) ==
    /\ previewVisible' = IF PreviewReady THEN FALSE ELSE previewVisible
    /\ UNCHANGED <<lastPinchState, placedCubes, blockCount, previewPos, aspect>>
    /\ NoHandObserved(results)

\* variant: losing the hand in mid-pinch commits the previewed cube
NoHandFrameCommits(results) ==
    /\ previewVisible' = IF PreviewReady THEN FALSE ELSE previewVisible
    /\ lastPinchState' = FALSE
    /\ placedCubes' = IF lastPinchState
                        THEN placeBlock(placedCubes, blockCount, previewPos).cubes
                        ELSE placedCubes
    /\ blockCount' = IF lastPinchState
                       THEN placeBlock(placedCubes, blockCount, previewPos).count
                       ELSE blockCount
    /\ UNCHANGED <<previewPos, aspect>>
    /\ NoHandObserved(results)

\* the no-hand branch of the callback, lines 190-193
NoHandFrame(results) ==
    /\ previewVisible' = IF PreviewReady THEN FALSE ELSE previewVisible
    /\ lastPinchState' = FALSE
    /\ UNCHANGED <<placedCubes, blockCount, previewPos, aspect>>
    /\ NoHandObserved(results)

\* thumbTip.x or indexTip.x read off undefined at line 168: a TypeError leaves the
\* callback before any of its writes
Throws(results) ==
    /\ UNCHANGED <<placedCubes, blockCount, lastPinchState, previewVisible, previewPos, aspect>>
    /\ lastOp' = "throw"
    /\ cur' = results
    /\ fired' = FALSE
    /\ placeArg' = Origin
    /\ placed' = FALSE
    /\ added' = Len(placedCubes') - Len(placedCubes)
    /\ rel' = NoRel
    /\ visibleAtPlace' = FALSE
    /\ UNCHANGED <<successes, loss, recovered, run, clearMid, bench>>

\* hands.onResults callback
onResults(results) ==
    IF "missing" \notin DOMAIN results /\ Len(results.multiHandLandmarks) > 0
    THEN
      LET landmarks == results.multiHandLandmarks[1]
      IN  IF 4 \notin DOMAIN landmarks \/ 8 \notin DOMAIN landmarks
          THEN Throws(results)
          ELSE
            LET thumbTip == landmarks[4]
                indexTip == landmarks[8]
            IN  \E isPinching \in {isPinchingOf(thumbTip, indexTip)} :
                \E snappedPos \in {snappedPosOf[landmarks, aspect]} :
                \E release \in {justReleased(lastPinchState, isPinching)} :
                \E target \in {placeTarget(snappedPos, previewPos)} :
                \E res \in {IF release
                              THEN placeBlock(placedCubes, blockCount, target)
                              ELSE [cubes |-> placedCubes, count |-> blockCount,
                                    placed |-> FALSE]} :
                    HandFrame(results, isPinching, snappedPos, release, target, res)
    ELSE NoHandFrame(results)

\* what the observers record of a press on Clear Scene
ClearObserved ==
    /\ lastOp' = "clear"
    /\ fired' = FALSE
    /\ placeArg' = Origin
    /\ placed' = FALSE
    /\ added' = Len(placedCubes') - Len(placedCubes)
    /\ successes' = IF SceneReady THEN 0 ELSE successes
    /\ rel' = NoRel
    /\ visibleAtPlace' = FALSE
    /\ clearMid' = IF run.len >= 1 THEN "pending" ELSE "no"
    /\ UNCHANGED <<cur, loss, recovered, run, bench>>

\* variant: the array is emptied but the count is not reset
resetSceneKeepsCount ==
    /\ placedCubes' = IF SceneReady THEN <<>> ELSE placedCubes
    /\ UNCHANGED <<blockCount, lastPinchState, previewVisible, previewPos, aspect>>
    /\ ClearObserved

\* variant: the cubes leave the scene but stay in the array
resetSceneKeepsArray ==
    /\ blockCount' = IF SceneReady THEN 0 ELSE blockCount
    /\ UNCHANGED <<placedCubes, lastPinchState, previewVisible, previewPos, aspect>>
    /\ ClearObserved

\* variant: only the most recent cube is removed
resetScenePopsLast ==
    /\ placedCubes' = IF SceneReady /\ Len(placedCubes) > 0
                        THEN SubSeq(placedCubes, 1, Len(placedCubes) - 1)
                        ELSE placedCubes
    /\ blockCount' = IF SceneReady /\ Len(placedCubes) > 0 THEN blockCount - 1 ELSE blockCount
    /\ UNCHANGED <<lastPinchState, previewVisible, previewPos, aspect>>
    /\ ClearObserved

\* variant: the clear also hides the preview cube
resetSceneHidesPreview ==
    /\ placedCubes' = IF SceneReady THEN <<>> ELSE placedCubes
    /\ blockCount' = IF SceneReady THEN 0 ELSE blockCount
    /\ previewVisible' = FALSE
    /\ UNCHANGED <<lastPinchState, previewPos, aspect>>
    /\ ClearObserved

\* variant: the clear also forgets the pinch
resetSceneCancelsPinch ==
    /\ placedCubes' = IF SceneReady THEN <<>> ELSE placedCubes
    /\ blockCount' = IF SceneReady THEN 0 ELSE blockCount
    /\ lastPinchState' = FALSE
    /\ UNCHANGED <<previewVisible, previewPos, aspect>>
    /\ ClearObserved

\* the Clear Scene button
resetScene ==
    /\ placedCubes' = IF SceneReady THEN <<>> ELSE placedCubes
    /\ blockCount' = IF SceneReady THEN 0 ELSE blockCount
    /\ UNCHANGED <<lastPinchState, previewVisible, previewPos, aspect>>
    /\ ClearObserved

\* what the observers record of a step that is neither a frame nor a clear
IdleObserved(op) ==
    /\ lastOp' = op
    /\ fired' = FALSE
    /\ placeArg' = Origin
    /\ placed' = FALSE
    /\ added' = Len(placedCubes') - Len(placedCubes)
    /\ rel' = NoRel
    /\ visibleAtPlace' = FALSE
    /\ clearMid' = IF clearMid = "pending" THEN "pending" ELSE "no"
    /\ UNCHANGED <<cur, successes, loss, recovered, run, bench>>

\* window resize: camera.aspect = width / height
handleResize(viewport) ==
    /\ aspect' = viewport
    /\ UNCHANGED <<placedCubes, blockCount, lastPinchState, previewVisible, previewPos>>
    /\ IdleObserved("resize")

\* variant: the render tick hides the preview cube
animateHidesPreview ==
    /\ previewVisible' = FALSE
    /\ UNCHANGED <<placedCubes, blockCount, lastPinchState, previewPos, aspect>>
    /\ IdleObserved("render")

\* one tick of the render loop: renderer.render(scene, camera) reads and writes nothing
animate ==
    /\ UNCHANGED <<placedCubes, blockCount, lastPinchState, previewVisible, previewPos, aspect>>
    /\ IdleObserved("render")

Next ==
    \/ \E results \in HandResults : onResults(results)
    \/ resetScene
    \/ \E viewport \in Viewports : handleResize(viewport)
    \/ animate

Spec == Init /\ [][Next]_vars

\* the same program when the tracker also delivers results outside its type
onMalformedResults(results) == onResults(results)

NextMalformed ==
    \/ Next
    \/ \E results \in MalformedResults : onMalformedResults(results)

SpecMalformed == Init /\ [][NextMalformed]_vars

-----------------------------------------------------------------------------
(* The projection and the snapping applied once to a drawn input, with the   *)
(* program at rest                                                          *)

observers == <<lastOp, cur, fired, placeArg, placed, added, successes,
               loss, recovered, run, rel, visibleAtPlace, clearMid>>

\* twice the midpoint's coordinate, over the whole screen in steps of 1/8
BenchScreen == {(Unit \div 4) * i : i \in 0..8}

WorldPoints == (-MaxCoord..MaxCoord) \X (-MaxCoord..MaxCoord) \X (-MaxCoord..MaxCoord)

\* twice a component that lies on a half-cell boundary: the odd numbers
HalfPoints == {2 * n + 1 : n \in -(MaxCoord + 1)..MaxCoord}

\* getSnappedWorldPosition of a screen point
Project(x2, y2, asp) ==
    /\ bench = NoBench
    /\ bench' = [kind |-> "project", x2 |-> x2, y2 |-> y2, asp |-> asp,
                 ndc |-> <<ndcXOf(x2), ndcYOf(y2)>>,
                 dir |-> Direction(x2, y2, asp),
                 pos |-> getSnappedWorldPosition(x2, y2, asp)]
    /\ UNCHANGED <<prog, observers>>

\* lines 117-121 on a targetPos p that lies on the lattice: p = BUILD_DISTANCE * p / sqrt(S)
\* for S = BUILD_DISTANCE^2
SnapPoint(p) ==
    /\ bench = NoBench
    /\ bench' = [kind |-> "snap", p |-> <<p[1] * GRID_SIZE, p[2] * GRID_SIZE, p[3] * GRID_SIZE>>,
                 pos |-> <<SnapComponent(p[1] * GRID_SIZE, Sq(BUILD_DISTANCE)),
                           SnapComponent(p[2] * GRID_SIZE, Sq(BUILD_DISTANCE)),
                           SnapComponent(p[3] * GRID_SIZE, Sq(BUILD_DISTANCE))>>]
    /\ UNCHANGED <<prog, observers>>

\* lines 117-121 on a component t with t / GRID_SIZE = h / 2, h odd:
\* t = BUILD_DISTANCE * (h * GRID_SIZE) / sqrt(S) for S = (2 * BUILD_DISTANCE)^2
SnapHalf(h) ==
    /\ bench = NoBench
    /\ bench' = [kind |-> "half", twice |-> h,
                 hits |-> {m \in RoundRange : RoundsTo(m, h * GRID_SIZE, Sq(2 * BUILD_DISTANCE))},
                 out |-> SnapComponent(h * GRID_SIZE, Sq(2 * BUILD_DISTANCE))]
    /\ UNCHANGED <<prog, observers>>

ProjNext ==
    \/ \E x2 \in BenchScreen, y2 \in BenchScreen, asp \in Viewports : Project(x2, y2, asp)
    \/ \E p \in WorldPoints : SnapPoint(p)
    \/ \E h \in HalfPoints : SnapHalf(h)

ProjSpec == Init /\ [][ProjNext]_vars

-----------------------------------------------------------------------------
(* What a results object says, read off the raw landmarks *)

HasHand(r) == Len(r.multiHandLandmarks) > 0

\* squared 3-D distance between landmark 4 and landmark 8 of the first hand
DistSq(r) ==
    LET t == r.multiHandLandmarks[1][4]
        i == r.multiHandLandmarks[1][8]
    IN  Sq(t.x - i.x) + Sq(t.y - i.y) + Sq(t.z - i.z)

PinchingHand(r) == HasHand(r) /\ DistSq(r) < Sq(PINCH_THRESHOLD)
OpenHand(r) == HasHand(r) /\ DistSq(r) >= Sq(PINCH_THRESHOLD)

-----------------------------------------------------------------------------
(* C1: in every reachable state no two stored voxels have the same lattice  *)
(* position.                                                                *)
NoTwoVoxelsAtOnePosition ==
    \A i, j \in 1..Len(placedCubes) :
        i # j => placedCubes[i] # placedCubes[j]

\* a release at an occupied position, with other voxels in the store
C1_Witness ==
    lastOp = "frame" /\ fired /\ placeArg \in Range(placedCubes) /\ added = 0
        /\ Len(placedCubes) = MaxBlocks

(* C2: a call of placeBlock on an occupied position changes neither the     *)
(* store nor the count and does not push; on a free position it appends     *)
(* exactly that position and raises the count by one.  In every reachable   *)
(* state, two calls in a row with one position raise the count by one if    *)
(* the position was free (by zero if not) and the second call pushes        *)
(* nothing.                                                                 *)
PlaceTwice(pos) ==
    LET first == placeBlock(placedCubes, blockCount, pos)
        second == placeBlock(first.cubes, first.count, pos)
    IN  /\ first.placed = (pos \notin Range(placedCubes))
        /\ ~second.placed
        /\ second.cubes = first.cubes
        /\ second.count = first.count
        /\ second.count = blockCount + (IF pos \in Range(placedCubes) THEN 0 ELSE 1)

PlaceIsIdempotent ==
    /\ [](\A pos \in Range(placedCubes) \cup {previewPos} : PlaceTwice(pos))
    /\ [][(lastOp' = "frame" /\ fired') =>
            IF placeArg' \in Range(placedCubes)
              THEN ~placed' /\ placedCubes' = placedCubes /\ blockCount' = blockCount
              ELSE placed' /\ placedCubes' = Append(placedCubes, placeArg')
                           /\ blockCount' = blockCount + 1]_vars

\* the second release at (2, 0, -6): nothing is pushed and the count stays 1
C2_Witness ==
    lastOp = "frame" /\ fired /\ ~placed /\ placeArg = <<2, 0, -6>>
        /\ placedCubes = <<placeArg>> /\ blockCount = 1

(* C3: the displayed count equals the number of stored voxels and the       *)
(* number of pushes since the store was last emptied, and is not negative.  *)
CountIsStoreSize ==
    /\ blockCount = Len(placedCubes)
    /\ blockCount = successes
    /\ blockCount >= 0

\* the release that pushed the second voxel: the count shows 2
C3_Witness ==
    lastOp = "frame" /\ placed /\ successes = 2 /\ blockCount = 2 /\ Len(placedCubes) = 2

(* C4: on a processed frame placeBlock is called if and only if the frame   *)
(* processed just before had a pinching hand and this frame has a hand      *)
(* that is not pinching; the first frame of a session calls nothing.        *)
ReleaseEdgeOnly ==
    [][lastOp' = "frame" => (fired' <=> (PinchingHand(cur) /\ OpenHand(cur')))]_vars

C4_Witness ==
    lastOp = "frame" /\ fired /\ OpenHand(cur) /\ DistSq(cur) > Sq(PINCH_THRESHOLD)

(* C5: the first hand frame after tracking was lost in mid-pinch places     *)
(* nothing and calls placeBlock not at all.                                 *)
NoPlacementAfterLoss ==
    (lastOp = "frame" /\ recovered = "midpinch") => (~fired /\ ~placed /\ added = 0)

\* the hand is back, not pinching, after it was lost while pinching
C5_Witness ==
    lastOp = "frame" /\ recovered = "midpinch" /\ OpenHand(cur)

(* C6: a frame without a hand leaves the store and the count as they were,  *)
(* and leaves the preview hidden.                                           *)
NoHandFrameEffect ==
    [][(lastOp' = "frame" /\ ~HasHand(cur')) =>
          /\ placedCubes' = placedCubes
          /\ blockCount' = blockCount
          /\ ~previewVisible']_vars

\* the hand was lost in mid-pinch with voxels in the store
C6_Witness ==
    lastOp = "frame" /\ ~HasHand(cur) /\ loss = "midpinch" /\ Len(placedCubes) >= 1
        /\ ~previewVisible

(* C7: n >= 1 consecutive pinching frames and then a non-pinching frame,    *)
(* all at one lattice position that is free, make exactly one placement,    *)
(* on the last frame; the pinching frames of a run place nothing.           *)
OnePlacementPerPinchRun ==
    /\ run.len >= 1 => run.added = 0
    /\ (rel.n >= 1 /\ rel.free) => (rel.total = 1 /\ rel.final = 1)

\* a release closing a run of at least two pinching frames at a free position
C7_Witness ==
    lastOp = "frame" /\ rel.n >= 2 /\ rel.free /\ rel.final = 1

(* C8: a clear leaves the store empty and the count 0, and a clear of an    *)
(* empty store changes nothing of the program's state.                      *)
ClearEmptiesStore ==
    [][lastOp' = "clear" =>
          /\ placedCubes' = <<>>
          /\ blockCount' = 0
          /\ placedCubes = <<>> => prog' = prog]_vars

\* a clear that removed three voxels
C8_Witness ==
    lastOp = "clear" /\ added = -3 /\ placedCubes = <<>> /\ blockCount = 0

(* C9: the store starts empty and every step leaves it as it is, appends    *)
(* one voxel at a position not yet in it (a frame that placed), or empties  *)
(* it (a clear).                                                            *)
StoreGrowsByOneOrEmpties ==
    /\ placedCubes = <<>>
    /\ [][\/ placedCubes' = placedCubes
          \/ /\ lastOp' = "frame"
             /\ \E p \in {placeArg'} :
                   p \notin Range(placedCubes) /\ placedCubes' = Append(placedCubes, p)
          \/ lastOp' = "clear" /\ placedCubes' = <<>>]_vars

\* a release that appended a third voxel to a store of two
C9_Witness ==
    lastOp = "frame" /\ added = 1 /\ Len(placedCubes) = 3
        /\ placedCubes[3] = placeArg /\ placedCubes[3] \notin {placedCubes[1], placedCubes[2]}

(* C10: after a hand frame the pinch state is true exactly when the 3-D     *)
(* distance between landmark 4 and landmark 8 is below PINCH_THRESHOLD;     *)
(* at the threshold and above it is false.                                  *)
PinchBelowThreshold ==
    (lastOp = "frame" /\ HasHand(cur)) =>
        /\ lastPinchState <=> DistSq(cur) < Sq(PINCH_THRESHOLD)
        /\ previewVisible <=> DistSq(cur) < Sq(PINCH_THRESHOLD)
        /\ DistSq(cur) >= Sq(PINCH_THRESHOLD) => ~lastPinchState

\* a frame at exactly the threshold, reached through the depth component
C10_Witness ==
    lastOp = "frame" /\ HasHand(cur) /\ DistSq(cur) = Sq(PINCH_THRESHOLD)
        /\ cur.multiHandLandmarks[1][4].z # cur.multiHandLandmarks[1][8].z
        /\ ~lastPinchState

(* C11: snapping a world point whose components are integer multiples of    *)
(* the cell size, positive, zero or negative, returns the point itself.     *)
SnapFixesLatticePoints ==
    bench.kind = "snap" => bench.pos = bench.p

\* a lattice point with a negative, a zero and a positive component
C11_Witness ==
    bench.kind = "snap" /\ bench.p = <<-MaxCoord, 0, 2>> /\ bench.pos = <<-MaxCoord, 0, 2>>

(* C12: the screen point (0.5, 0.5) has NDC (0, 0), its ray points down -Z  *)
(* so the world point is (0, 0, -6), and the lattice position is (0, 0, -6).*)
CentreProjectsStraightAhead ==
    (bench.kind = "project" /\ bench.x2 = Unit /\ bench.y2 = Unit) =>
        /\ bench.ndc = <<0, 0>>
        /\ bench.dir[1] = 0 /\ bench.dir[2] = 0 /\ bench.dir[3] < 0
        /\ BUILD_DISTANCE = 6 /\ GRID_SIZE = 1
        /\ bench.pos = <<0, 0, -6>>

C12_Witness ==
    bench.kind = "project" /\ bench.x2 = Unit /\ bench.y2 = Unit /\ bench.pos = <<0, 0, -6>>

(* C16 as stated: snapping is total and deterministic, and on the half-cell *)
(* boundaries it is round-half-away-from-zero throughout or round-half-to-  *)
(* even throughout.                                                         *)
HalfAway(h) == IF h > 0 THEN (h + 1) \div 2 ELSE (h - 1) \div 2
HalfEven(h) == IF ((h + 1) \div 2) % 2 = 0 THEN (h + 1) \div 2 ELSE (h - 1) \div 2
SnapOfHalf(h) == SnapComponent(h * GRID_SIZE, Sq(2 * BUILD_DISTANCE))

HalfCellsFollowNamedRule ==
    bench.kind = "half" =>
        /\ Cardinality(bench.hits) = 1
        /\ \/ \A h \in HalfPoints : SnapOfHalf(h) = HalfAway(h) * GRID_SIZE
           \/ \A h \in HalfPoints : SnapOfHalf(h) = HalfEven(h) * GRID_SIZE

(* C16 as amended: snapping is total and deterministic, and a component on  *)
(* a half-cell boundary, p/s = n + 1/2, goes to n + 1 for every integer n,  *)
(* positive or negative (round half up, as Math.round does).                *)
HalfCellsRoundUp ==
    bench.kind = "half" =>
        /\ Cardinality(bench.hits) = 1
        /\ bench.out = ((bench.twice + 1) \div 2) * GRID_SIZE

\* -1.5 goes to -1: neither away from zero nor to even
C16_Witness ==
    bench.kind = "half" /\ bench.twice = -3 /\ bench.out = -1
        /\ bench.out # HalfAway(-3) /\ bench.out # HalfEven(-3)

(* C13: the preview is visible exactly when the most recently processed     *)
(* frame had a pinching hand, after frames and after clears alike; the      *)
(* preview's visibility equals the pinch memory.                            *)
PreviewIffPinching ==
    /\ previewVisible = lastPinchState
    /\ previewVisible <=> PinchingHand(cur)

\* a clear in mid-pinch: the preview stays
C13_Witness ==
    lastOp = "clear" /\ added < 0 /\ PinchingHand(cur) /\ previewVisible /\ lastPinchState

(* C14 as stated: on a release frame placeBlock is invoked before the       *)
(* preview is hidden, so the preview is still visible when it is called.    *)
PlaceBeforeHide ==
    (lastOp = "frame" /\ fired) => visibleAtPlace

(* C14 as amended: on a release frame the preview is hidden first (line     *)
(* 181) and placeBlock is invoked after that (line 186), in the same run    *)
(* of the callback.                                                         *)
HideBeforePlace ==
    (lastOp = "frame" /\ fired) => (~visibleAtPlace /\ ~previewVisible)

C14_Witness ==
    lastOp = "frame" /\ fired /\ placed /\ ~visibleAtPlace /\ ~previewVisible

(* C15: after a hand frame the preview's position is the lattice position   *)
(* projected from that frame's thumb-index midpoint, pinching or not; a     *)
(* release hands placeBlock that position, and a voxel it pushes sits there. *)
MidpointPosition(r, asp) ==
    getSnappedWorldPosition(r.multiHandLandmarks[1][4].x + r.multiHandLandmarks[1][8].x,
                            r.multiHandLandmarks[1][4].y + r.multiHandLandmarks[1][8].y, asp)

PlacedAtCurrentFramePosition ==
    (lastOp = "frame" /\ HasHand(cur)) =>
        /\ previewPos = MidpointPosition(cur, aspect)
        /\ fired => placeArg = previewPos
        /\ placed => placedCubes[Len(placedCubes)] = previewPos

\* a release at another position than the one previewed while pinching
C15_Witness ==
    lastOp = "frame" /\ fired /\ placed /\ rel.n = 0 /\ ~previewVisible
        /\ placedCubes[Len(placedCubes)] = previewPos

(* C17 as stated: only the frame callback writes the store, the count or    *)
(* the preview; the render tick, the resize handler and the clear handler   *)
(* write none of them.                                                      *)
OnlyFramesWrite ==
    [][lastOp' \in {"render", "resize", "clear"} =>
          UNCHANGED <<placedCubes, blockCount, previewVisible, previewPos>>]_vars

(* C17 as amended: the preview is written only by the frame callback; the   *)
(* store and the count are written by the frame callback and by the clear   *)
(* button's handler; the render tick and the resize handler write none of   *)
(* them.                                                                    *)
OnlyFramesAndClearWrite ==
    [][/\ lastOp' \in {"render", "resize"} =>
             UNCHANGED <<placedCubes, blockCount, previewVisible, previewPos>>
       /\ lastOp' = "clear" => UNCHANGED <<previewVisible, previewPos>>]_vars

\* a render tick with voxels in the store and the preview showing
C17_Witness ==
    lastOp = "render" /\ Len(placedCubes) >= 1 /\ previewVisible /\ blockCount >= 1

(* C18: a result without hands and a malformed result (the landmark list    *)
(* missing, a hand without landmark 4 or 8) leave the preview hidden, the   *)
(* pinch memory false, the store as it was, and raise no error.             *)
MalformedHandledAsNoHand ==
    (lastOp \in {"frame", "throw"} /\ cur \in MalformedResults \cup {NoHands}) =>
        /\ lastOp # "throw"
        /\ ~previewVisible
        /\ ~lastPinchState
        /\ added = 0

(* C19: a clear leaves the pinch memory and the preview's visibility and    *)
(* position as they were; after a clear in mid-pinch the next non-pinching  *)
(* hand frame places one voxel and the count is 1.                          *)
ClearKeepsThePinch ==
    /\ []((lastOp = "frame" /\ clearMid = "released") =>
            (fired /\ placed /\ blockCount = 1 /\ placedCubes = <<placeArg>>))
    /\ [][lastOp' = "clear" =>
            UNCHANGED <<lastPinchState, previewVisible, previewPos>>]_vars

\* the release after a clear that emptied a store in mid-pinch
C19_Witness ==
    lastOp = "frame" /\ clearMid = "released" /\ blockCount = 1 /\ placed

=============================================================================
